---------------------------- MODULE Spec2Model ----------------------------
(***************************************************************************)
(* Model of the product-feed batching engine (BatchService and its sink).  *)
(*                                                                         *)
(* A JavaScript string is a sequence of UTF-16 code units (naturals).  An  *)
(* object is the ordered sequence of its own properties, each a record     *)
(* [key, value] of two strings, in insertion order (the order in which     *)
(* JSON.stringify writes them).                                            *)
(***************************************************************************)
EXTENDS Integers, Sequences, FiniteSets, TLC

(***************************************************************************)
(* Bounds of the model.                                                    *)
(***************************************************************************)
\* Number of addProduct / flush calls made on one BatchService.
MaxOps == 4

\* Number of sink calls that may fail (throw, or reject their promise).
MaxSinkFailures == 1

\* Number of elements open at once below the root element of a feed, an
\* item and the elements inside it counted.
MaxDepth == 3

\* Number of elements open at once below the root element and outside every
\* item.
MaxOutside == 1

\* Number of code units of text and CDATA received since the latest tag.
MaxText == 1

\* Number of valid items in a feed.
MaxItems == 2

(***************************************************************************)
(* Strings: Buffer.byteLength(s, 'utf8') and JSON.stringify / JSON.parse.  *)
(***************************************************************************)
IsHighSurrogate(u) == u >= 55296 /\ u <= 56319

IsLowSurrogate(u) == u >= 56320 /\ u <= 57343

\* The bytes code unit s[i] contributes to the UTF-8 encoding of s.  A
\* surrogate pair encodes one code point in 4 bytes, counted at its high
\* surrogate; a lone surrogate is encoded as U+FFFD (3 bytes).
UnitBytes(s, i) ==
    IF s[i] < 128 THEN 1
    ELSE IF s[i] < 2048 THEN 2
    ELSE IF IsHighSurrogate(s[i]) /\ i < Len(s) /\ IsLowSurrogate(s[i + 1]) THEN 4
    ELSE IF IsLowSurrogate(s[i]) /\ i > 1 /\ IsHighSurrogate(s[i - 1]) THEN 0
    ELSE 3

\* The bytes of the code units s[lo..hi], summed by halves.
RECURSIVE byteLengthRange(_, _, _)
byteLengthRange(s, lo, hi) ==
    IF lo > hi THEN 0
    ELSE IF lo = hi THEN UnitBytes(s, lo)
    ELSE LET mid == (lo + hi) \div 2
         IN byteLengthRange(s, lo, mid) + byteLengthRange(s, mid + 1, hi)

\* Buffer.byteLength(s, 'utf8'): the number of bytes of the UTF-8 encoding
\* of s.
byteLength(s) == byteLengthRange(s, 1, Len(s))

\* The lower-case hexadecimal digit of n in 0..15, as a code unit.
HexDigit(n) == IF n < 10 THEN 48 + n ELSE 87 + n

\* The \uXXXX escape of code unit u.
UnicodeEscape(u) ==
    << 92, 117, HexDigit(u \div 4096), HexDigit((u \div 256) % 16),
       HexDigit((u \div 16) % 16), HexDigit(u % 16) >>

\* JSON.stringify's QuoteJSONString, one code unit (next is the unit after
\* it, prev the one before, 0 when there is none).
QuoteUnit(u, prev, next) ==
    IF u = 8 THEN << 92, 98 >>
    ELSE IF u = 9 THEN << 92, 116 >>
    ELSE IF u = 10 THEN << 92, 110 >>
    ELSE IF u = 12 THEN << 92, 102 >>
    ELSE IF u = 13 THEN << 92, 114 >>
    ELSE IF u = 34 THEN << 92, 34 >>
    ELSE IF u = 92 THEN << 92, 92 >>
    ELSE IF u < 32 THEN UnicodeEscape(u)
    ELSE IF IsHighSurrogate(u) /\ ~IsLowSurrogate(next) THEN UnicodeEscape(u)
    ELSE IF IsLowSurrogate(u) /\ ~IsHighSurrogate(prev) THEN UnicodeEscape(u)
    ELSE << u >>

RECURSIVE QuoteFrom(_, _)
QuoteFrom(s, i) ==
    IF i > Len(s) THEN << >>
    ELSE QuoteUnit(s[i],
                   IF i > 1 THEN s[i - 1] ELSE 0,
                   IF i < Len(s) THEN s[i + 1] ELSE 0)
         \o QuoteFrom(s, i + 1)

\* JSON.stringify of a string value.
JSONstringifyString(s) == << 34 >> \o QuoteFrom(s, 1) \o << 34 >>

\* JSON.stringify of an object whose property values are strings: the own
\* properties in insertion order.
RECURSIVE JSONstringifyMembers(_, _)
JSONstringifyMembers(obj, i) ==
    IF i > Len(obj) THEN << >>
    ELSE (IF i > 1 THEN << 44 >> ELSE << >>)
         \o JSONstringifyString(obj[i].key) \o << 58 >>
         \o JSONstringifyString(obj[i].value)
         \o JSONstringifyMembers(obj, i + 1)

JSONstringify(obj) == << 123 >> \o JSONstringifyMembers(obj, 1) \o << 125 >>

\* JSON.stringify of an array of such objects.
RECURSIVE JSONstringifyElements(_, _)
JSONstringifyElements(arr, i) ==
    IF i > Len(arr) THEN << >>
    ELSE (IF i > 1 THEN << 44 >> ELSE << >>)
         \o JSONstringify(arr[i])
         \o JSONstringifyElements(arr, i + 1)

JSONstringifyArray(arr) == << 91 >> \o JSONstringifyElements(arr, 1) \o << 93 >>

\* The value of a hexadecimal digit given as a code unit.
HexValue(c) == IF c <= 57 THEN c - 48 ELSE IF c <= 70 THEN c - 55 ELSE c - 87

\* The code unit a one-letter escape \c stands for.
Unescape(c) ==
    IF c = 98 THEN 8
    ELSE IF c = 116 THEN 9
    ELSE IF c = 110 THEN 10
    ELSE IF c = 102 THEN 12
    ELSE IF c = 114 THEN 13
    ELSE c

\* JSON.parse of a string literal; i is the index after the opening quote.
\* The result is the value and the index after the closing quote.
RECURSIVE ParseStringFrom(_, _, _)
ParseStringFrom(t, i, acc) ==
    IF t[i] = 34 THEN [value |-> acc, next |-> i + 1]
    ELSE IF t[i] = 92 THEN
        IF t[i + 1] = 117
        THEN ParseStringFrom(t, i + 6,
                 Append(acc, 4096 * HexValue(t[i + 2]) + 256 * HexValue(t[i + 3])
                             + 16 * HexValue(t[i + 4]) + HexValue(t[i + 5])))
        ELSE ParseStringFrom(t, i + 2, Append(acc, Unescape(t[i + 1])))
    ELSE ParseStringFrom(t, i + 1, Append(acc, t[i]))

\* JSON.parse of the members of an object; i is the index after '{' or ','.
RECURSIVE ParseMembersFrom(_, _, _)
ParseMembersFrom(t, i, acc) ==
    IF t[i] = 125 THEN [value |-> acc, next |-> i + 1]
    ELSE LET k == ParseStringFrom(t, i + 1, << >>)
             v == ParseStringFrom(t, k.next + 2, << >>)
             member == [key |-> k.value, value |-> v.value]
         IN IF t[v.next] = 44
            THEN ParseMembersFrom(t, v.next + 1, Append(acc, member))
            ELSE [value |-> Append(acc, member), next |-> v.next + 1]

\* JSON.parse of the elements of an array; i is the index after '[' or ','.
RECURSIVE ParseElementsFrom(_, _, _)
ParseElementsFrom(t, i, acc) ==
    IF t[i] = 93 THEN [value |-> acc, next |-> i + 1]
    ELSE LET o == ParseMembersFrom(t, i + 1, << >>)
         IN IF t[o.next] = 44
            THEN ParseElementsFrom(t, o.next + 1, Append(acc, o.value))
            ELSE [value |-> Append(acc, o.value), next |-> o.next + 1]

\* JSON.parse of the text of an array of objects with string values.
JSONparse(t) == ParseElementsFrom(t, 2, << >>).value

(***************************************************************************)
(* Products (src/types/product.ts) and the inputs of the model.            *)
(***************************************************************************)
KeyId == << 105, 100 >>

KeyTitle == << 116, 105, 116, 108, 101 >>

KeyDescription == << 100, 101, 115, 99, 114, 105, 112, 116, 105, 111, 110 >>

\* The object literal { id, title, description }.
Product(id, title, description) ==
    << [key |-> KeyId, value |-> id],
       [key |-> KeyTitle, value |-> title],
       [key |-> KeyDescription, value |-> description] >>

\* The products offered to addProduct.  Their JSON texts are 37, 38 and 41
\* bytes long: all fields empty; an ASCII id; an id of two bytes (U+00E9, one
\* code unit) with a title that is a double quote (escaped in JSON).
Products ==
    { Product(<< >>, << >>, << >>),
      Product(<< 97 >>, << >>, << >>),
      Product(<< 233 >>, << 34 >>, << >>) }

\* The values of config.maxBatchSize tried.  40 puts the guard rail at its
\* boundary (the 37-byte product is accepted, the 38-byte one rejected); 82
\* and 120 put the flush condition at its boundary with one and with two
\* records pending.
Ceilings == { 40, 82, 120 }

\* What the sink's call does with a payload: it returns ("ok"), it throws
\* ("throw"), or it returns a promise that is later rejected ("reject").
\* An asynchronous sink's promise that has not settled yet is "pending".
Outcomes == { "ok", "throw", "reject" }

(***************************************************************************)
(* feed-parser.ts: tag names, field mapping, validity.                     *)
(***************************************************************************)
\* "item"
TagItem == << 105, 116, 101, 109 >>

\* "g:id", the id field with a namespace prefix.
TagGId == << 103, 58, 105, 100 >>

\* "link", a tag that is no field of a product.
TagLink == << 108, 105, 110, 107 >>

\* "constructor", a tag named like an inherited property of every object.
TagConstructor == << 99, 111, 110, 115, 116, 114, 117, 99, 116, 111, 114 >>

\* "toString"
TagToString == << 116, 111, 83, 116, 114, 105, 110, 103 >>

\* String(Object), the property key that FIELD_MAPPINGS['constructor'] becomes:
\* "function Object() { [native code] }".
StringOfObject ==
    << 102, 117, 110, 99, 116, 105, 111, 110, 32, 79, 98, 106, 101, 99, 116,
       40, 41, 32, 123, 32, 91, 110, 97, 116, 105, 118, 101, 32, 99, 111, 100,
       101, 93, 32, 125 >>

\* String(Object.prototype.toString):
\* "function toString() { [native code] }".
StringOfToString ==
    << 102, 117, 110, 99, 116, 105, 111, 110, 32, 116, 111, 83, 116, 114, 105,
       110, 103, 40, 41, 32, 123, 32, 91, 110, 97, 116, 105, 118, 101, 32, 99,
       111, 100, 101, 93, 32, 125 >>

\* The code units that String.prototype.trim strips (WhiteSpace and
\* LineTerminator of ECMAScript).
WhiteSpace ==
    { 9, 10, 11, 12, 13, 32, 160, 5760, 8232, 8233, 8239, 8287, 12288, 65279 }
        \cup (8192 .. 8202)

\* s.trim()
trim(s) ==
    LET keep == { i \in DOMAIN s : s[i] \notin WhiteSpace }
    IN IF keep = { } THEN << >>
       ELSE LET first == CHOOSE i \in keep : \A j \in keep : i <= j
                last_ == CHOOSE i \in keep : \A j \in keep : j <= i
            IN SubSeq(s, first, last_)

\* name.split(':')[1]: what lies between the first ':' and the next one (or
\* the end of the name).
SplitColon1(name) ==
    LET colons == { i \in DOMAIN name : name[i] = 58 }
        first == CHOOSE i \in colons : \A j \in colons : i <= j
        later == { i \in colons : i > first }
        stop == IF later = { } THEN Len(name) + 1
                ELSE CHOOSE i \in later : \A j \in later : i <= j
    IN SubSeq(name, first + 1, stop - 1)

getLocalName(name) ==
    IF \E i \in DOMAIN name : name[i] = 58 THEN SplitColon1(name) ELSE name

\* The own properties of the object FIELD_MAPPINGS.
FIELD_MAPPINGS ==
    << [key |-> KeyId, value |-> KeyId],
       [key |-> KeyTitle, value |-> KeyTitle],
       [key |-> KeyDescription, value |-> KeyDescription] >>

\* Properties that FIELD_MAPPINGS, an object literal, inherits from
\* Object.prototype, each with the string its value becomes when it is used
\* as a property key.
ObjectPrototype ==
    << [key |-> TagConstructor, value |-> StringOfObject],
       [key |-> TagToString, value |-> StringOfToString] >>

\* obj[key] of an object given by its properties; props has the key.
Get(props, key) ==
    LET i == CHOOSE j \in DOMAIN props : props[j].key = key
    IN props[i].value

Has(props, key) == \E j \in DOMAIN props : props[j].key = key

\* localName in FIELD_MAPPINGS: own and inherited properties.
inFieldMappings(localName) ==
    Has(FIELD_MAPPINGS, localName) \/ Has(ObjectPrototype, localName)

\* FIELD_MAPPINGS[localName], as a property key.
fieldMapping(localName) ==
    IF Has(FIELD_MAPPINGS, localName) THEN Get(FIELD_MAPPINGS, localName)
    ELSE Get(ObjectPrototype, localName)

\* Mutant: a property that exists is not written again.
SetIfAbsent(obj, key, value) ==
    IF Has(obj, key) THEN obj
    ELSE Append(obj, [key |-> key, value |-> value])

\* obj[key] = value: an existing property keeps its place.
Set(obj, key, value) ==
    IF Has(obj, key)
    THEN [j \in DOMAIN obj |->
             IF obj[j].key = key THEN [key |-> key, value |-> value] ELSE obj[j]]
    ELSE Append(obj, [key |-> key, value |-> value])

\* Mutant: a product needs no title.
isValidProductNoTitle(p) ==
    /\ Has(p, KeyId) /\ Len(Get(p, KeyId)) > 0
    /\ Has(p, KeyDescription)

isValidProduct(p) ==
    /\ Has(p, KeyId) /\ Len(Get(p, KeyId)) > 0
    /\ Has(p, KeyTitle)
    /\ Has(p, KeyDescription)

(***************************************************************************)
(* config.ts: the ceiling, computed from MAX_BATCH_SIZE_MB.  A number that *)
(* need not be whole is a fraction [num, den] with den a power of ten.     *)
(***************************************************************************)
BYTES_PER_MB == 1024 * 1024

\* The megabytes of the ceiling when MAX_BATCH_SIZE_MB gives none.
DefaultMB == 5

IsDigit(u) == u >= 48 /\ u <= 57

RECURSIVE Pow10(_)
Pow10(n) == IF n = 0 THEN 1 ELSE 10 * Pow10(n - 1)

\* The number written by the decimal digits s[1..n].
RECURSIVE DigitsValue(_, _)
DigitsValue(s, n) ==
    IF n = 0 THEN 0 ELSE 10 * DigitsValue(s, n - 1) + (s[n] - 48)

\* How many decimal digits s has in a row from position i on.
RECURSIVE DigitsFrom(_, _)
DigitsFrom(s, i) ==
    IF i <= Len(s) /\ IsDigit(s[i]) THEN 1 + DigitsFrom(s, i + 1) ELSE 0

\* s without its leading white space.
trimStart(s) ==
    LET keep == { i \in DOMAIN s : s[i] \notin WhiteSpace }
    IN IF keep = { } THEN << >>
       ELSE SubSeq(s, CHOOSE i \in keep : \A j \in keep : i <= j, Len(s))

\* parseFloat(string): leading white space is skipped and the longest
\* prefix that is a decimal literal (sign, digits, '.', digits) is the
\* number; what follows it is ignored; no such prefix gives NaN.  Exponent
\* parts and "Infinity" are left out: no value tried has one.
parseFloat(string) ==
    LET t == trimStart(string)
        signed == t # << >> /\ t[1] \in { 43, 45 }
        sign == IF t # << >> /\ t[1] = 45 THEN -1 ELSE 1
        i == IF signed THEN 2 ELSE 1
        nInt == DigitsFrom(t, i)
        dot == i + nInt <= Len(t) /\ t[i + nInt] = 46
        nFrac == IF dot THEN DigitsFrom(t, i + nInt + 1) ELSE 0
        digits == SubSeq(t, i, i + nInt - 1)
                      \o SubSeq(t, i + nInt + 1, i + nInt + nFrac)
    IN IF nInt + nFrac = 0
       THEN [nan |-> TRUE, num |-> 0, den |-> 1]
       ELSE [nan |-> FALSE, num |-> sign * DigitsValue(digits, Len(digits)),
             den |-> Pow10(nFrac)]

\* The environment: whether MAX_BATCH_SIZE_MB is set, its value, and whether
\* config.ts has been evaluated.
Env(set, value, loaded) == [set |-> set, value |-> value, loaded |-> loaded]

\* The environment plays no part: config.maxBatchSize is given.
ConfigGiven == Env(FALSE, << >>, TRUE)

\* process.env.MAX_BATCH_SIZE_MB ?? ''
envOrEmpty(e) == IF e.set THEN e.value ELSE << >>

\* Mutant: only NaN gives the default, zero is kept.
megabytesKeepZero(e) ==
    LET f == parseFloat(envOrEmpty(e))
    IN IF f.nan THEN [num |-> DefaultMB, den |-> 1]
       ELSE [num |-> f.num, den |-> f.den]

\* parseFloat(process.env.MAX_BATCH_SIZE_MB ?? '') || 5: NaN and zero are
\* falsy.
megabytes(e) ==
    LET f == parseFloat(envOrEmpty(e))
    IN IF f.nan \/ f.num = 0 THEN [num |-> DefaultMB, den |-> 1]
       ELSE [num |-> f.num, den |-> f.den]

\* config.maxBatchSize, in bytes, as a fraction.
configMaxBatchSize(e) ==
    [num |-> megabytes(e).num * BYTES_PER_MB, den |-> megabytes(e).den]

\* The least whole number that is not below the fraction q.  A count of
\* bytes n is a whole number, so n >= q exactly when n >= Ceiling(q).
Ceiling(q) == -((-q.num) \div q.den)

\* The strings of at most two code units made of '0', '2', '.', '-', ' ' and
\* 'a'.
ShortValues == UNION { [1 .. n -> { 48, 50, 46, 45, 32, 97 }] : n \in 0 .. 2 }

\* Longer values: "2.5", "2MB", "2.5.2", "+2 ", "0.0", "-0.5", "0.00004" and
\* "0.00008" (ceilings of 41.94304 and 83.88608 bytes).
LongValues ==
    { << 50, 46, 53 >>, << 50, 77, 66 >>, << 50, 46, 53, 46, 50 >>,
      << 43, 50, 32 >>, << 48, 46, 48 >>, << 45, 48, 46, 53 >>,
      << 48, 46, 48, 48, 48, 48, 52 >>, << 48, 46, 48, 48, 48, 48, 56 >> }

\* The environments tried: MAX_BATCH_SIZE_MB unset, or set to one of the
\* values.
Environments ==
    { Env(FALSE, << >>, FALSE) }
        \cup { Env(TRUE, v, FALSE) : v \in ShortValues \cup LongValues }

(***************************************************************************)
(* State.                                                                  *)
(***************************************************************************)
VARIABLES
    batch,             \* BatchService.batch
    currentBatchSize,  \* BatchService.currentBatchSize
    maxBatchSize,      \* config.maxBatchSize
    batchNum,          \* ExternalService.batchNum
    sinkCalls,         \* the payloads handed to ExternalService.call, in order
    added,             \* history: the products whose addProduct returned
    last,              \* history: the latest call, its result, the state before
    nOps,              \* number of calls made so far
    currentProduct,    \* parseProductFeed: fields of the current product
    currentTag,        \* parseProductFeed: local name of the tag opened last
    currentText,       \* parseProductFeed: text accumulated for currentTag
    insideItem,        \* parseProductFeed: whether inside an <item>
    pending,           \* parseProductFeed: the promise queue
    promise,           \* the promise parseProductFeed returned
    stack,             \* the elements open below the root, with their text
    stream,            \* "flowing", "unpiped", "destroyed" or "ended"
    extracted,         \* history: the products chained to pending, in order
    handed,            \* history: the products passed to addProduct, in order
    item,              \* history: the fields committed by the item now open
    lastEvent,         \* history: the latest parser event, the latest tag event
    errorAt,           \* history: what had been done when the parser failed
    env,               \* process.env.MAX_BATCH_SIZE_MB, and whether config.ts ran
    exit               \* "none" while the process runs, then its exit code

batchVars == << batch, currentBatchSize, maxBatchSize, batchNum, sinkCalls,
                added, last, nOps, env, exit >>

parserVars == << currentProduct, currentTag, currentText, insideItem >>

feedVars == << currentProduct, currentTag, currentText, insideItem, pending,
               promise, stack, stream, extracted, handed, item, lastEvent,
               errorAt >>

vars == << batch, currentBatchSize, maxBatchSize, batchNum, sinkCalls, added,
           last, nOps, currentProduct, currentTag, currentText, insideItem,
           pending, promise, stack, stream, extracted, handed, item,
           lastEvent, errorAt, env, exit >>

EMPTY_JSON_ARRAY_SIZE == byteLength(<< 91, 93 >>)

COMMA_SEPARATOR_SIZE == byteLength(<< 44 >>)

\* The BatchService and its ExternalService as one value; threw is "none"
\* while the running call has not thrown.
Self ==
    [batch |-> batch, currentBatchSize |-> currentBatchSize,
     batchNum |-> batchNum, sinkCalls |-> sinkCalls, threw |-> "none"]

(***************************************************************************)
(* ExternalService.                                                        *)
(***************************************************************************)
\* ExternalService.call(batch): counts the call and prints the parsed batch.
call(this, jsonBatch, outcome) ==
    [this EXCEPT
        !.batchNum = @ + 1,
        !.sinkCalls = Append(@, [batch |-> jsonBatch,
                                 products |-> Len(JSONparse(jsonBatch)),
                                 outcome |-> outcome])]

(***************************************************************************)
(* BatchService.                                                           *)
(***************************************************************************)
\* Mutant: the separator between array elements is not counted.
calculateAdditionalSizeNoComma(this, itemByteSize) == itemByteSize

calculateAdditionalSize(this, itemByteSize) ==
    IF Len(this.batch) = 0 THEN itemByteSize
    ELSE itemByteSize + COMMA_SEPARATOR_SIZE

\* Mutant: the batch is sent but not emptied.
flushKeepsBatch(this, outcome) ==
    IF Len(this.batch) > 0
    THEN LET jsonBatch == JSONstringifyArray(this.batch)
             called == call(this, jsonBatch, outcome)
         IN IF outcome = "throw"
            THEN [called EXCEPT !.threw = "sink"]
            ELSE [called EXCEPT !.currentBatchSize = EMPTY_JSON_ARRAY_SIZE]
    ELSE this

\* Mutant: the batch is emptied but the running size is not reset.
flushKeepsSize(this, outcome) ==
    IF Len(this.batch) > 0
    THEN LET jsonBatch == JSONstringifyArray(this.batch)
             called == call(this, jsonBatch, outcome)
         IN IF outcome = "throw"
            THEN [called EXCEPT !.threw = "sink"]
            ELSE [called EXCEPT !.batch = << >>]
    ELSE this

\* Mutant: the batch is sent also when it is empty.
flushAlways(this, outcome) ==
    LET jsonBatch == JSONstringifyArray(this.batch)
        called == call(this, jsonBatch, outcome)
    IN IF outcome = "throw"
       THEN [called EXCEPT !.threw = "sink"]
       ELSE [called EXCEPT !.batch = << >>,
                           !.currentBatchSize = EMPTY_JSON_ARRAY_SIZE]

\* flush(): a call that throws leaves flush before the batch is reset.
flush(this, outcome) ==
    IF Len(this.batch) > 0
    THEN LET jsonBatch == JSONstringifyArray(this.batch)
             called == call(this, jsonBatch, outcome)
         IN IF outcome = "throw"
            THEN [called EXCEPT !.threw = "sink"]
            ELSE [called EXCEPT !.batch = << >>,
                                !.currentBatchSize = EMPTY_JSON_ARRAY_SIZE]
    ELSE this

\* Mutant: the guard rail lets a product through at equality.
guardRailGt(productByteSize, ceiling) ==
    EMPTY_JSON_ARRAY_SIZE + productByteSize > ceiling

\* The guard rail of addProduct: the product cannot fit in any valid batch.
guardRail(productByteSize, ceiling) ==
    EMPTY_JSON_ARRAY_SIZE + productByteSize >= ceiling

\* Mutant: the separator is counted once more than it is written.
wouldReachLimitEarly(this, productByteSize, ceiling) ==
    this.currentBatchSize + calculateAdditionalSize(this, productByteSize)
        + COMMA_SEPARATOR_SIZE >= ceiling

\* Mutant: the batch is not flushed at equality.
wouldReachLimitGt(this, productByteSize, ceiling) ==
    this.currentBatchSize + calculateAdditionalSize(this, productByteSize) > ceiling

\* The flush condition of addProduct: adding the product would reach or
\* exceed the limit.
wouldReachLimit(this, productByteSize, ceiling) ==
    this.currentBatchSize + calculateAdditionalSize(this, productByteSize) >= ceiling

\* Mutant: the guard rail is tested after the flush, not before.
addProductGuardAfterFlush(this, product, ceiling, outcome) ==
    LET productJson == JSONstringify(product)
        productByteSize == byteLength(productJson)
        flushed ==
            IF wouldReachLimit(this, productByteSize, ceiling)
            THEN flush(this, outcome)
            ELSE this
    IN IF flushed.threw # "none" THEN flushed
       ELSE IF guardRail(productByteSize, ceiling)
       THEN [flushed EXCEPT !.threw = "oversized"]
       ELSE [flushed EXCEPT
                !.currentBatchSize =
                    @ + calculateAdditionalSize(flushed, productByteSize),
                !.batch = Append(@, product)]

\* Mutant: the product is put at the front of the batch (unshift for push).
addProductUnshift(this, product, ceiling, outcome) ==
    LET productJson == JSONstringify(product)
        productByteSize == byteLength(productJson)
    IN IF guardRail(productByteSize, ceiling)
       THEN [this EXCEPT !.threw = "oversized"]
       ELSE LET flushed ==
                    IF wouldReachLimit(this, productByteSize, ceiling)
                    THEN flush(this, outcome)
                    ELSE this
            IN IF flushed.threw # "none" THEN flushed
               ELSE [flushed EXCEPT
                        !.currentBatchSize =
                            @ + calculateAdditionalSize(flushed, productByteSize),
                        !.batch = << product >> \o @]

\* Mutant: the product is pushed before the batch is flushed.
addProductPushBeforeFlush(this, product, ceiling, outcome) ==
    LET productJson == JSONstringify(product)
        productByteSize == byteLength(productJson)
    IN IF guardRail(productByteSize, ceiling)
       THEN [this EXCEPT !.threw = "oversized"]
       ELSE LET pushed ==
                    [this EXCEPT
                        !.currentBatchSize =
                            @ + calculateAdditionalSize(this, productByteSize),
                        !.batch = Append(@, product)]
            IN IF wouldReachLimit(this, productByteSize, ceiling)
               THEN flush(pushed, outcome)
               ELSE pushed

\* Mutant: addProduct validates the record like the extractor does and throws
\* for an empty id.
addProductValidatesId(this, product, ceiling, outcome) ==
    LET productJson == JSONstringify(product)
        productByteSize == byteLength(productJson)
    IN IF guardRail(productByteSize, ceiling) \/ product[1].value = << >>
       THEN [this EXCEPT !.threw = "oversized"]
       ELSE LET flushed ==
                    IF wouldReachLimit(this, productByteSize, ceiling)
                    THEN flush(this, outcome)
                    ELSE this
            IN IF flushed.threw # "none" THEN flushed
               ELSE [flushed EXCEPT
                        !.currentBatchSize =
                            @ + calculateAdditionalSize(flushed, productByteSize),
                        !.batch = Append(@, product)]

\* addProduct(product), with the ceiling read from config.maxBatchSize.
addProduct(this, product, ceiling, outcome) ==
    LET productJson == JSONstringify(product)
        productByteSize == byteLength(productJson)
    IN IF guardRail(productByteSize, ceiling)
       THEN [this EXCEPT !.threw = "oversized"]
       ELSE LET flushed ==
                    IF wouldReachLimit(this, productByteSize, ceiling)
                    THEN flush(this, outcome)
                    ELSE this
            IN IF flushed.threw # "none" THEN flushed
               ELSE [flushed EXCEPT
                        !.currentBatchSize =
                            @ + calculateAdditionalSize(flushed, productByteSize),
                        !.batch = Append(@, product)]

(***************************************************************************)
(* The state machine: calls made on one fresh BatchService.                *)
(***************************************************************************)
\* The part of the state a call can change, as it is before the call.
Before ==
    [batch |-> batch, currentBatchSize |-> currentBatchSize,
     batchNum |-> batchNum, calls |-> Len(sinkCalls)]

\* The value of lastEvent when the latest event is no closetag.
NoCloseTag ==
    [type |-> "other", name |-> << >>, text |-> << >>, inItem |-> FALSE,
     fields |-> << >>, valid |-> FALSE, queued |-> FALSE, prior |-> << >>,
     after |-> "none"]

\* parseProductFeed has been called: nothing has been read yet.
InitFeed ==
    /\ currentProduct = << >>
    /\ currentTag = << >>
    /\ currentText = << >>
    /\ insideItem = FALSE
    /\ pending = [state |-> "fulfilled", reason |-> "none", reactions |-> << >>]
    /\ promise = [state |-> "pending", reason |-> "none"]
    /\ stack = << >>
    /\ stream = "flowing"
    /\ extracted = << >>
    /\ handed = << >>
    /\ item = << >>
    /\ lastEvent = NoCloseTag
    /\ errorAt = [seen |-> FALSE, handed |-> 0, calls |-> 0]

\* A new BatchService with a new ExternalService, and parseProductFeed not
\* yet reading.
InitService ==
    /\ InitFeed
    /\ batch = << >>
    /\ currentBatchSize = EMPTY_JSON_ARRAY_SIZE
    /\ batchNum = 0
    /\ sinkCalls = << >>
    /\ added = << >>
    /\ last = [op |-> "new", product |-> << >>, threw |-> "none", pre |-> Before,
               prevOp |-> "none", prevCalls |-> 0]
    /\ nOps = 0
    /\ exit = "none"

\* config.maxBatchSize is given, one of Ceilings, whatever the environment.
Init ==
    /\ InitService
    /\ maxBatchSize \in Ceilings
    /\ env = ConfigGiven

Apply(result) ==
    /\ batch' = result.batch
    /\ currentBatchSize' = result.currentBatchSize
    /\ batchNum' = result.batchNum
    /\ sinkCalls' = result.sinkCalls
    /\ nOps' = nOps + 1
    /\ UNCHANGED << maxBatchSize, env, exit >>

\* The outcomes that are failures of the sink's call.
Failures == { "throw", "reject" }

\* The number of sink calls so far that failed.
SinkFailures ==
    Cardinality({ i \in DOMAIN sinkCalls : sinkCalls[i].outcome \in Failures })

\* One call of batchService.addProduct(product); outcome is what the sink
\* does if this call hands it a payload.
AddProduct(product, outcome) ==
    /\ nOps < MaxOps
    /\ outcome \in Failures => SinkFailures < MaxSinkFailures
    /\ \E result \in { addProduct(Self, product, maxBatchSize, outcome) } :
          /\ Apply(result)
          /\ added' = IF result.threw = "none" THEN Append(added, product) ELSE added
          /\ last' = [op |-> "addProduct", product |-> product,
                      threw |-> result.threw, pre |-> Before,
                      prevOp |-> last.op, prevCalls |-> last.pre.calls]

\* One call of batchService.flush().
Flush(outcome) ==
    /\ nOps < MaxOps
    /\ outcome \in Failures => SinkFailures < MaxSinkFailures
    /\ \E result \in { flush(Self, outcome) } :
          /\ Apply(result)
          /\ UNCHANGED added
          /\ last' = [op |-> "flush", product |-> << >>,
                      threw |-> result.threw, pre |-> Before,
                      prevOp |-> last.op, prevCalls |-> last.pre.calls]

\* The sink of the repository, ExternalService, whose call always returns.
Next ==
    \/ \E product \in Products : AddProduct(product, "ok") /\ UNCHANGED feedVars
    \/ Flush("ok") /\ UNCHANGED feedVars

Spec == Init /\ [][Next]_vars

\* Any sink: its call may also throw or return a promise that is rejected.
NextAnySink ==
    \/ \E product \in Products, outcome \in Outcomes :
           AddProduct(product, outcome) /\ UNCHANGED feedVars
    \/ \E outcome \in Outcomes : Flush(outcome) /\ UNCHANGED feedVars

SpecAnySink == Init /\ [][NextAnySink]_vars

\* An asynchronous sink: its call returns a promise ("pending") and the
\* delivery completes later, fulfilling or rejecting the promise.  Neither
\* flush nor addProduct holds the promise, so the settlement changes nothing
\* but the delivery itself.
Settle(i, outcome) ==
    /\ sinkCalls[i].outcome = "pending"
    /\ outcome \in Failures => SinkFailures < MaxSinkFailures
    /\ sinkCalls' = [sinkCalls EXCEPT ![i].outcome = outcome]
    /\ UNCHANGED << batch, currentBatchSize, maxBatchSize, batchNum, added,
                    last, nOps, env, exit >>

NextAsyncSink ==
    \/ \E product \in Products :
           AddProduct(product, "pending") /\ UNCHANGED feedVars
    \/ Flush("pending") /\ UNCHANGED feedVars
    \/ \E i \in DOMAIN sinkCalls, outcome \in { "ok", "reject" } :
           Settle(i, outcome) /\ UNCHANGED feedVars

SpecAsyncSink == Init /\ [][NextAsyncSink]_vars

\* config.ts is evaluated when it is first imported: config.maxBatchSize is
\* computed from the environment.  maxBatchSize holds the least whole number
\* of bytes that is not below it (see Ceiling).
LoadConfig ==
    /\ ~env.loaded
    /\ maxBatchSize' = Ceiling(configMaxBatchSize(env))
    /\ env' = [env EXCEPT !.loaded = TRUE]
    /\ UNCHANGED << batch, currentBatchSize, batchNum, sinkCalls, added, last,
                    nOps, exit >>
    /\ UNCHANGED feedVars

\* The program starts with one of the environments; the service is used
\* once the configuration is loaded.
NextConfig ==
    \/ LoadConfig
    \/ \E product \in Products :
           env.loaded /\ AddProduct(product, "ok") /\ UNCHANGED feedVars
    \/ env.loaded /\ Flush("ok") /\ UNCHANGED feedVars

InitConfig ==
    /\ InitService
    /\ env \in Environments
    /\ maxBatchSize = 0

SpecConfig == InitConfig /\ [][NextConfig]_vars

(***************************************************************************)
(* parseProductFeed: the handlers of the parser's events, the promise      *)
(* queue, and the feeds read.                                              *)
(*                                                                         *)
(* The sax stream is strict: a closetag event closes the element opened    *)
(* last.  The root element of the feed is left out (its events change      *)
(* nothing, insideItem being false), and so are item elements inside item  *)
(* elements; the elements outside the items have no element inside them,   *)
(* the children of an item come in the order of ChildOrder, and the        *)
(* elements inside them are link elements.                                 *)
(* After an error event the stream is unpiped from the file: nothing more  *)
(* is parsed and no end event comes.  At the end of a file with an element *)
(* still open, the parser emits an error and then its end.                 *)
(* The file is read chunk by chunk.  The reactions chained to a promise    *)
(* run one by one between two chunks, and an error of the file stream      *)
(* comes between two chunks.  A chunk ends between two elements below the  *)
(* root; the handlers and the reactions share no variable but the queue.   *)
(***************************************************************************)
\* The tag names of the feeds.
Tags == { TagItem, TagGId, KeyTitle, KeyDescription, TagConstructor, TagLink }

\* The order in which the children of an item come in the feeds (a child
\* may be missing, and may come more than once in a row).
ChildOrder == << TagGId, KeyTitle, KeyDescription, TagLink, TagConstructor >>

\* The place of a name in ChildOrder; 0 for a name that is not in it.
Rank(name) ==
    IF \E i \in DOMAIN ChildOrder : ChildOrder[i] = name
    THEN CHOOSE i \in DOMAIN ChildOrder : ChildOrder[i] = name
    ELSE 0

\* The values of config.maxBatchSize for the feeds.
FeedCeilings == { 82 }

\* The chunks of text and of CDATA: "a" and " ".
Chunks == { << 97 >>, << 32 >> }

\* What the sink does when the feed's records reach it: the call returns or
\* it throws.
FeedOutcomes == { "ok", "throw" }

\* The local name of a qualified name: what follows its first ':'.
LocalNameOf(name) ==
    LET colons == { i \in DOMAIN name : name[i] = 58 }
    IN IF colons = { } THEN name
       ELSE SubSeq(name, (CHOOSE i \in colons : \A j \in colons : i <= j) + 1,
                   Len(name))

\* The field names of a product.
Recognized == { KeyId, KeyTitle, KeyDescription }

\* An item element is open.
InItem == \E i \in DOMAIN stack : LocalNameOf(stack[i].name) = TagItem

\* The fields committed make a record: an id that is not empty, a title and
\* a description.
ItemValid(fields) ==
    /\ \E i \in DOMAIN fields : fields[i].key = KeyId /\ fields[i].value # << >>
    /\ \E i \in DOMAIN fields : fields[i].key = KeyTitle
    /\ \E i \in DOMAIN fields : fields[i].key = KeyDescription

\* The element opened last is an item: the next element is its child.
ChildOfItem ==
    /\ stack # << >>
    /\ LocalNameOf(stack[Len(stack)].name) = TagItem

\* The parser can emit events.
Parsing == stream = "flowing"

\* No chunk is being parsed: reactions can run.
BetweenChunks == stack = << >> \/ ~Parsing

\* reject(err): only the first settlement of a promise counts.
reject(reason) ==
    IF promise.state = "pending"
    THEN [state |-> "rejected", reason |-> reason]
    ELSE promise

\* The feeds: where an element named name can be opened.
FeedShape(name) ==
    /\ Len(stack) < (IF InItem THEN MaxDepth ELSE MaxOutside)
    /\ LocalNameOf(name) = TagItem => (~InItem /\ Len(extracted) < MaxItems)
    /\ ChildOfItem => Rank(name) >= stack[Len(stack)].rank
    /\ (InItem /\ ~ChildOfItem) => name = TagLink

\* parser.on('opentag')
OpenTag(name) ==
    /\ Parsing
    /\ LET tagName == getLocalName(name)
           inside == insideItem \/ tagName = TagItem
       IN /\ insideItem' = inside
          /\ currentProduct' = IF tagName = TagItem THEN << >> ELSE currentProduct
          /\ currentTag' = IF inside THEN tagName ELSE currentTag
          /\ currentText' = IF inside THEN << >> ELSE currentText
    /\ stack' = Append(IF ChildOfItem
                       THEN [stack EXCEPT ![Len(stack)].rank = Rank(name)]
                       ELSE stack,
                       [name |-> name, text |-> << >>, rank |-> 0])
    /\ item' = IF LocalNameOf(name) = TagItem THEN << >> ELSE item
    /\ lastEvent' = [NoCloseTag EXCEPT !.after = "open"]
    /\ UNCHANGED << pending, promise, stream, extracted, handed, errorAt >>
    /\ UNCHANGED batchVars

\* The element opened last is a field of the item that is open.
InField ==
    /\ InItem
    /\ LocalNameOf(stack[Len(stack)].name) \in Recognized

\* Mutant: the chunk is appended inside an item whether or not a tag is
\* current.
ChunkIgnoresTag(chunk) ==
    /\ Parsing
    /\ insideItem => Len(currentText) + Len(chunk) <= MaxText
    /\ InField => Len(stack[Len(stack)].text) + Len(chunk) <= MaxText
    /\ currentText' = IF insideItem
                      THEN currentText \o chunk
                      ELSE currentText
    /\ stack' = IF InField
                THEN [stack EXCEPT ![Len(stack)].text = @ \o chunk]
                ELSE stack
    /\ lastEvent' = [NoCloseTag EXCEPT !.after = lastEvent.after]
    /\ UNCHANGED << currentProduct, currentTag, insideItem, pending, promise,
                    stream, extracted, handed, item, errorAt >>
    /\ UNCHANGED batchVars

\* The text and cdata handlers: the chunk is appended while a tag is current.
Chunk(chunk) ==
    /\ Parsing
    /\ (insideItem /\ currentTag # << >>) =>
           Len(currentText) + Len(chunk) <= MaxText
    /\ InField => Len(stack[Len(stack)].text) + Len(chunk) <= MaxText
    /\ currentText' = IF insideItem /\ currentTag # << >>
                      THEN currentText \o chunk
                      ELSE currentText
    /\ stack' = IF InField
                THEN [stack EXCEPT ![Len(stack)].text = @ \o chunk]
                ELSE stack
    /\ lastEvent' = [NoCloseTag EXCEPT !.after = lastEvent.after]
    /\ UNCHANGED << currentProduct, currentTag, insideItem, pending, promise,
                    stream, extracted, handed, item, errorAt >>
    /\ UNCHANGED batchVars

\* parser.on('text')
Text(chunk) == Chunk(chunk)

\* parser.on('cdata')
CData(chunk) == Chunk(chunk)

\* Mutant: the reaction is put before the ones already queued.
thenFirst(reaction) == [pending EXCEPT !.reactions = << reaction >> \o @]

\* pending = pending.then(reaction)
then(reaction) == [pending EXCEPT !.reactions = Append(@, reaction)]

\* Mutant: the closetag handler commits a field whether or not an item is
\* open.
CloseTagCommitsOutside ==
    /\ Parsing
    /\ stack # << >>
    /\ LET top == stack[Len(stack)]
           tagName == top.name
           localName == getLocalName(tagName)
           product ==
               IF inFieldMappings(localName)
               THEN Set(currentProduct, fieldMapping(localName), trim(currentText))
               ELSE currentProduct
           queued == localName = TagItem /\ isValidProduct(product)
           fields ==
               IF InItem /\ LocalNameOf(tagName) \in Recognized
               THEN Set(item, LocalNameOf(tagName), trim(currentText))
               ELSE item
           closesItem == LocalNameOf(tagName) = TagItem
       IN /\ currentProduct' = IF localName = TagItem THEN << >> ELSE product
          /\ insideItem' = IF localName = TagItem THEN FALSE ELSE insideItem
          /\ pending' = IF queued
                        THEN then([kind |-> "addProduct", product |-> product])
                        ELSE pending
          /\ currentTag' = << >>
          /\ currentText' = << >>
          /\ extracted' = IF queued THEN Append(extracted, product) ELSE extracted
          /\ item' = IF closesItem THEN << >> ELSE fields
          /\ lastEvent' = [type |-> "closetag", name |-> tagName,
                           text |-> top.text, inItem |-> InItem,
                           fields |-> IF closesItem THEN fields ELSE << >>,
                           valid |-> closesItem /\ ItemValid(fields),
                           queued |-> queued,
                           prior |-> IF closesItem THEN << >> ELSE item,
                           after |-> "close"]
    /\ stack' = SubSeq(stack, 1, Len(stack) - 1)
    /\ UNCHANGED << promise, stream, handed, errorAt >>
    /\ UNCHANGED batchVars

\* parser.on('closetag'), for the element opened last.
CloseTag ==
    /\ Parsing
    /\ stack # << >>
    /\ LET top == stack[Len(stack)]
           tagName == top.name
           localName == getLocalName(tagName)
           product ==
               IF insideItem /\ inFieldMappings(localName)
               THEN Set(currentProduct, fieldMapping(localName), trim(currentText))
               ELSE currentProduct
           queued == localName = TagItem /\ isValidProduct(product)
           fields ==
               IF InItem /\ LocalNameOf(tagName) \in Recognized
               THEN Set(item, LocalNameOf(tagName), trim(currentText))
               ELSE item
           closesItem == LocalNameOf(tagName) = TagItem
       IN /\ currentProduct' = IF localName = TagItem THEN << >> ELSE product
          /\ insideItem' = IF localName = TagItem THEN FALSE ELSE insideItem
          /\ pending' = IF queued
                        THEN then([kind |-> "addProduct", product |-> product])
                        ELSE pending
          /\ currentTag' = << >>
          /\ currentText' = << >>
          /\ extracted' = IF queued THEN Append(extracted, product) ELSE extracted
          /\ item' = IF closesItem THEN << >> ELSE fields
          /\ lastEvent' = [type |-> "closetag", name |-> tagName,
                           text |-> top.text, inItem |-> InItem,
                           fields |-> IF closesItem THEN fields ELSE << >>,
                           valid |-> closesItem /\ ItemValid(fields),
                           queued |-> queued,
                           prior |-> IF closesItem THEN << >> ELSE item,
                           after |-> "close"]
    /\ stack' = SubSeq(stack, 1, Len(stack) - 1)
    /\ UNCHANGED << promise, stream, handed, errorAt >>
    /\ UNCHANGED batchVars

\* What had been done when the parser reported its first error.
ErrorSeen ==
    IF errorAt.seen THEN errorAt
    ELSE [seen |-> TRUE, handed |-> Len(handed), calls |-> Len(sinkCalls)]

\* parser.on('error'), while the file is being parsed.
ParserError ==
    /\ stream = "flowing"
    /\ promise' = reject("parse")
    /\ stream' = "unpiped"
    /\ errorAt' = ErrorSeen
    /\ lastEvent' = NoCloseTag
    /\ UNCHANGED << parserVars, pending, stack, extracted, handed, item >>
    /\ UNCHANGED batchVars

\* Mutant: the end handler settles the promise without a final flush.
endReactionsNoFlush == << [kind |-> "settle", product |-> << >>] >>

\* What the end handler chains to the queue:
\* .then(() => batchService.flush()).then(resolve).catch(reject)
endReactions ==
    << [kind |-> "flush", product |-> << >>],
       [kind |-> "settle", product |-> << >>] >>

\* Mutant: the end handler also submits the product of an item left open.
EndSubmitsOpenItem ==
    /\ stream = "flowing"
    /\ promise' = IF stack # << >> THEN reject("parse") ELSE promise
    /\ errorAt' = IF stack # << >> THEN ErrorSeen ELSE errorAt
    /\ pending' =
           [pending EXCEPT !.reactions =
               @ \o (IF insideItem /\ isValidProduct(currentProduct)
                     THEN << [kind |-> "addProduct", product |-> currentProduct] >>
                     ELSE << >>)
                 \o endReactions]
    /\ stream' = "ended"
    /\ lastEvent' = NoCloseTag
    /\ UNCHANGED << parserVars, stack, extracted, handed, item >>
    /\ UNCHANGED batchVars

\* parser.on('end'): the final flush and the settlement are chained to the
\* queue.  The end of a file with an element still open is first an error.
End ==
    /\ stream = "flowing"
    /\ promise' = IF stack # << >> THEN reject("parse") ELSE promise
    /\ errorAt' = IF stack # << >> THEN ErrorSeen ELSE errorAt
    /\ pending' = [pending EXCEPT !.reactions = @ \o endReactions]
    /\ stream' = "ended"
    /\ lastEvent' = NoCloseTag
    /\ UNCHANGED << parserVars, stack, extracted, handed, item >>
    /\ UNCHANGED batchVars

\* Mutant: the file stream has no error handler that rejects.
FileStreamErrorIgnored ==
    /\ stream = "flowing"
    /\ BetweenChunks
    /\ stream' = "destroyed"
    /\ lastEvent' = NoCloseTag
    /\ UNCHANGED << parserVars, pending, promise, stack, extracted, handed,
                    item, errorAt >>
    /\ UNCHANGED batchVars

\* fileStream.on('error'): nothing more is read.
FileStreamError ==
    /\ stream = "flowing"
    /\ BetweenChunks
    /\ promise' = reject("io")
    /\ stream' = "destroyed"
    /\ lastEvent' = NoCloseTag
    /\ UNCHANGED << parserVars, pending, stack, extracted, handed, item,
                    errorAt >>
    /\ UNCHANGED batchVars

\* The reaction of the queue that runs next.
nextReaction == Head(pending.reactions)

\* The promise queue once its next reaction has run and thrown threw, or
\* been skipped because the queue was rejected before.
settled(threw) ==
    [state |-> IF pending.state = "rejected" \/ threw # "none"
               THEN "rejected" ELSE "fulfilled",
     reason |-> IF pending.state = "rejected" THEN pending.reason ELSE threw,
     reactions |-> Tail(pending.reactions)]

\* The number of addProduct reactions queued behind the next reaction.
Behind ==
    Cardinality({ i \in DOMAIN pending.reactions :
                    i > 1 /\ pending.reactions[i].kind = "addProduct" })

\* () => batchService.addProduct(product), run when the queue is fulfilled.
AddProductReaction(outcome) ==
    /\ BetweenChunks
    /\ pending.reactions # << >>
    /\ nextReaction.kind = "addProduct"
    /\ IF pending.state = "fulfilled"
       THEN /\ AddProduct(nextReaction.product, outcome)
            /\ handed' = Append(handed, [product |-> nextReaction.product,
                                         behind |-> Behind])
            /\ pending' = settled(last'.threw)
       ELSE /\ pending' = settled("none")
            /\ UNCHANGED handed
            /\ UNCHANGED batchVars
    /\ UNCHANGED << parserVars, promise, stack, stream, extracted, item,
                    lastEvent, errorAt >>

\* () => batchService.flush(), run when the queue is fulfilled.
FlushReaction(outcome) ==
    /\ BetweenChunks
    /\ pending.reactions # << >>
    /\ nextReaction.kind = "flush"
    /\ IF pending.state = "fulfilled"
       THEN /\ Flush(outcome)
            /\ pending' = settled(last'.threw)
       ELSE /\ pending' = settled("none")
            /\ UNCHANGED batchVars
    /\ UNCHANGED << parserVars, promise, stack, stream, extracted, handed,
                    item, lastEvent, errorAt >>

\* Mutant: the error of the chain is caught and dropped before resolve.
ResolveAlways ==
    /\ BetweenChunks
    /\ pending.reactions # << >>
    /\ nextReaction.kind = "settle"
    /\ promise' = IF promise.state = "pending"
                  THEN [state |-> "resolved", reason |-> "none"]
                  ELSE promise
    /\ pending' = settled("none")
    /\ UNCHANGED << parserVars, stack, stream, extracted, handed, item,
                    lastEvent, errorAt >>
    /\ UNCHANGED batchVars

\* .then(resolve).catch(reject)
ResolveOrReject ==
    /\ BetweenChunks
    /\ pending.reactions # << >>
    /\ nextReaction.kind = "settle"
    /\ promise' = IF pending.state = "fulfilled"
                  THEN IF promise.state = "pending"
                       THEN [state |-> "resolved", reason |-> "none"]
                       ELSE promise
                  ELSE reject(pending.reason)
    /\ pending' = settled("none")
    /\ UNCHANGED << parserVars, stack, stream, extracted, handed, item,
                    lastEvent, errorAt >>
    /\ UNCHANGED batchVars

NextFeed ==
    \/ \E name \in Tags : FeedShape(name) /\ OpenTag(name)
    \/ \E chunk \in Chunks : Text(chunk)
    \/ \E chunk \in Chunks : CData(chunk)
    \/ CloseTag
    \/ ParserError
    \/ End
    \/ FileStreamError
    \/ \E outcome \in FeedOutcomes : AddProductReaction(outcome)
    \/ \E outcome \in FeedOutcomes : FlushReaction(outcome)
    \/ ResolveOrReject

\* One run of parseProductFeed on a fresh BatchService.
\* parseProductFeed is called with a new batch service whose ceiling is one of
\* FeedCeilings.
InitParse == Init /\ maxBatchSize \in FeedCeilings

SpecFeed == InitParse /\ [][NextFeed]_vars

(***************************************************************************)
(* index.ts: the signal handlers of the driver.  A signal is handled       *)
(* between two chunks; process.exit ends the run: nothing of the queue     *)
(* runs after it.                                                          *)
(***************************************************************************)
\* The process has not exited.
Running == exit = "none"

\* Mutant: the handler has no try / catch around the flush (as the earlier
\* handlers), so a flush that throws ends the process with code 1.
gracefulShutdownNoCatch(outcome) ==
    /\ Running
    /\ BetweenChunks
    /\ nOps < MaxOps
    /\ outcome \in Failures => SinkFailures < MaxSinkFailures
    /\ \E result \in { flush(Self, outcome) } :
          /\ batch' = result.batch
          /\ currentBatchSize' = result.currentBatchSize
          /\ batchNum' = result.batchNum
          /\ sinkCalls' = result.sinkCalls
          /\ nOps' = nOps + 1
          /\ last' = [op |-> "flush", product |-> << >>,
                      threw |-> result.threw, pre |-> Before,
                      prevOp |-> last.op, prevCalls |-> last.pre.calls]
          /\ exit' = IF result.threw = "none" THEN "0" ELSE "1"
    /\ UNCHANGED << maxBatchSize, env, added >>
    /\ UNCHANGED feedVars

\* gracefulShutdown(signal), on SIGINT or SIGTERM: batchService.flush() is
\* called, what it throws is caught and logged, and the process exits with
\* code 0.
gracefulShutdown(outcome) ==
    /\ Running
    /\ BetweenChunks
    /\ nOps < MaxOps
    /\ outcome \in Failures => SinkFailures < MaxSinkFailures
    /\ \E result \in { flush(Self, outcome) } :
          /\ batch' = result.batch
          /\ currentBatchSize' = result.currentBatchSize
          /\ batchNum' = result.batchNum
          /\ sinkCalls' = result.sinkCalls
          /\ nOps' = nOps + 1
          /\ last' = [op |-> "flush", product |-> << >>,
                      threw |-> result.threw, pre |-> Before,
                      prevOp |-> last.op, prevCalls |-> last.pre.calls]
          /\ exit' = "0"
    /\ UNCHANGED << maxBatchSize, env, added >>
    /\ UNCHANGED feedVars

\* One run of the driver on a well-formed, readable feed, which a signal
\* may interrupt.
NextShutdown ==
    \/ \E name \in Tags : Running /\ FeedShape(name) /\ OpenTag(name)
    \/ \E chunk \in Chunks : Running /\ Text(chunk)
    \/ Running /\ CloseTag
    \/ Running /\ stack = << >> /\ End
    \/ \E outcome \in FeedOutcomes : Running /\ AddProductReaction(outcome)
    \/ \E outcome \in FeedOutcomes : Running /\ FlushReaction(outcome)
    \/ Running /\ ResolveOrReject
    \/ \E outcome \in FeedOutcomes : gracefulShutdown(outcome)

SpecShutdown == InitParse /\ [][NextShutdown]_vars

\* The tag names made of 'i', 'd' and ':', of four code units at most.
Names ==
    UNION { [1 .. n -> { 105, 100, 58 }] : n \in 1 .. 4 }

\* Items whose children have any of these names, with or without text.
NextNames ==
    \/ stack = << >> /\ OpenTag(TagItem)
    \/ \E name \in Names : ChildOfItem /\ OpenTag(name)
    \/ Len(stack) = 2 /\ Text(<< 97 >>)
    \/ CloseTag

SpecNames == InitParse /\ [][NextNames]_vars

(***************************************************************************)
(* Definitions used by the properties.                                     *)
(***************************************************************************)
\* record_cost: the byte length of a record's JSON text.
Cost(product) == byteLength(JSONstringify(product))

\* The records of the payloads sinkCalls[1..n], payload after payload.
RECURSIVE RecordsOfCalls(_)
RecordsOfCalls(n) ==
    IF n = 0 THEN << >>
    ELSE RecordsOfCalls(n - 1) \o JSONparse(sinkCalls[n].batch)

\* The records of all the payloads handed to the sink so far.
Delivered == RecordsOfCalls(Len(sinkCalls))

\* How many times x occurs in the sequence seq.
Count(seq, x) == Cardinality({ i \in DOMAIN seq : seq[i] = x })

RECURSIVE SumCost(_, _)
SumCost(seq, i) == IF i > Len(seq) THEN 0 ELSE Cost(seq[i]) + SumCost(seq, i + 1)

\* The payload handed to the sink most recently.
LastPayload == sinkCalls[Len(sinkCalls)].batch

\* The latest call of addProduct or flush handed a payload to the sink.
LastCalledSink == Len(sinkCalls) > last.pre.calls

\* What the sink did with the payload handed to it most recently.
LastOutcome == sinkCalls[Len(sinkCalls)].outcome

\* The deliveries that have been started and have not completed.
InProgress == { i \in DOMAIN sinkCalls : sinkCalls[i].outcome = "pending" }

(***************************************************************************)
(* Properties.                                                             *)
(***************************************************************************)
\* C1 - Size invariant: whatever the ceiling and the calls made (oversized
\* rejections and failing sink calls included), every payload handed to the
\* sink's call is strictly shorter, in UTF-8 bytes, than the ceiling.
C1_SizeInvariant ==
    \A i \in DOMAIN sinkCalls : byteLength(sinkCalls[i].batch) < maxBatchSize

\* A payload one byte below the ceiling has been sent and the latest
\* addProduct was rejected as oversized.
C1_Witness ==
    /\ last.op = "addProduct"
    /\ last.threw = "oversized"
    /\ \E i \in DOMAIN sinkCalls : byteLength(sinkCalls[i].batch) = maxBatchSize - 1

\* C2 - Completeness (sink never failing): no payload holds a record that was
\* not successfully added, not more often than it was added; and after a
\* final flush every successfully added record is in the payloads exactly as
\* often as it was added.
C2_Completeness ==
    /\ \A i \in DOMAIN Delivered :
           Count(Delivered, Delivered[i]) <= Count(added, Delivered[i])
    /\ last.op = "flush" =>
           \A i \in DOMAIN added :
               Count(Delivered, added[i]) = Count(added, added[i])

\* A final flush after an automatic flush, the same record added twice.
C2_Witness ==
    /\ last.op = "flush"
    /\ Len(sinkCalls) >= 2
    /\ last.pre.calls < Len(sinkCalls)
    /\ \E i \in DOMAIN added : Count(added, added[i]) >= 2

\* C3 - Order preservation: the records of the payloads, concatenated in the
\* order the payloads were handed to the sink, followed by the records still
\* pending, are the successfully added records in the order of the
\* addProduct calls.
C3_OrderPreservation == Delivered \o batch = added

\* Two payloads have been sent, the first of two different records, and
\* nothing is pending.
C3_Witness ==
    /\ Len(sinkCalls) >= 2
    /\ sinkCalls[1].products >= 2
    /\ added[1] # added[2]
    /\ batch = << >>

\* C4 - Rejection purity: an addProduct that fails as oversized leaves the
\* pending batch and the running total as they were and calls no sink.
C4_RejectionPurity ==
    (last.op = "addProduct" /\ last.threw = "oversized") =>
        /\ batch = last.pre.batch
        /\ currentBatchSize = last.pre.currentBatchSize
        /\ Len(sinkCalls) = last.pre.calls
        /\ batchNum = last.pre.batchNum

\* An oversized product was rejected while a record was pending.
C4_Witness ==
    /\ last.op = "addProduct"
    /\ last.threw = "oversized"
    /\ Len(last.pre.batch) > 0

\* C5 - Guard-rail boundary: addProduct fails as oversized exactly when
\* 2 + record_cost >= ceiling, whatever is pending.
C5_GuardBoundary ==
    last.op = "addProduct" =>
        ((last.threw = "oversized") <=> (2 + Cost(last.product) >= maxBatchSize))

\* A record with 2 + record_cost = ceiling was rejected while a record with
\* 2 + record_cost = ceiling - 1, accepted before, is pending.
C5_Witness ==
    /\ last.op = "addProduct"
    /\ last.threw = "oversized"
    /\ 2 + Cost(last.product) = maxBatchSize
    /\ \E i \in DOMAIN batch : 2 + Cost(batch[i]) = maxBatchSize - 1

\* C6 - Byte accounting: the running total is 2, plus the JSON byte lengths of
\* the pending records, plus one separator less than there are pending
\* records; it is the byte length of the pending batch serialised now.
C6_ByteAccounting ==
    /\ currentBatchSize =
           2 + SumCost(batch, 1) + (IF Len(batch) > 0 THEN Len(batch) - 1 ELSE 0)
    /\ currentBatchSize = byteLength(JSONstringifyArray(batch))

\* Three records are pending, one of them with more bytes than code units.
C6_Witness ==
    /\ Len(batch) >= 3
    /\ \E i \in DOMAIN batch : Cost(batch[i]) > Len(JSONstringify(batch[i]))

\* C7 - Flush of a non-empty batch: flush makes exactly one sink call, its
\* payload is the JSON array of the records that were pending, in insertion
\* order; afterwards nothing is pending and the running total is 2.
C7_FlushNonEmpty ==
    (last.op = "flush" /\ Len(last.pre.batch) > 0) =>
        /\ Len(sinkCalls) = last.pre.calls + 1
        /\ batchNum = last.pre.batchNum + 1
        /\ LastPayload = JSONstringifyArray(last.pre.batch)
        /\ JSONparse(LastPayload) = last.pre.batch
        /\ batch = << >>
        /\ currentBatchSize = 2

\* A batch of three records, not all the same, has been flushed.
C7_Witness ==
    /\ last.op = "flush"
    /\ Len(last.pre.batch) >= 3
    /\ last.pre.batch[1] # last.pre.batch[3]

\* C8 - Idempotent empty flush: flush with nothing pending makes no sink call
\* and changes nothing; two consecutive flush calls make at most one sink
\* call between them.
C8_EmptyFlush ==
    /\ (last.op = "flush" /\ Len(last.pre.batch) = 0) =>
           /\ last.threw = "none"
           /\ Len(sinkCalls) = last.pre.calls
           /\ batchNum = last.pre.batchNum
           /\ batch = last.pre.batch
           /\ currentBatchSize = last.pre.currentBatchSize
    /\ (last.op = "flush" /\ last.prevOp = "flush") =>
           Len(sinkCalls) <= last.prevCalls + 1

\* After some adds, a flush that sent a payload was followed by a flush that
\* found nothing pending.
C8_Witness ==
    /\ last.op = "flush"
    /\ last.prevOp = "flush"
    /\ Len(last.pre.batch) = 0
    /\ Len(sinkCalls) = last.prevCalls + 1
    /\ Len(added) >= 2

\* C9 - Auto-flush trigger: an addProduct that passes the guard rail flushes
\* first exactly when current_total + record_cost + (1 if records are
\* pending) >= ceiling; then the pending records are the payload and the
\* record starts a new batch of running total 2 + record_cost; otherwise no
\* sink call is made and the record is appended to the pending ones.
C9_AutoFlushTrigger ==
    (last.op = "addProduct" /\ 2 + Cost(last.product) < maxBatchSize) =>
        LET cost == Cost(last.product)
            trigger ==
                last.pre.currentBatchSize + cost
                    + (IF Len(last.pre.batch) > 0 THEN 1 ELSE 0) >= maxBatchSize
        IN /\ trigger =>
                 /\ Len(sinkCalls) = last.pre.calls + 1
                 /\ JSONparse(LastPayload) = last.pre.batch
                 /\ batch = << last.product >>
                 /\ currentBatchSize = 2 + cost
           /\ ~trigger =>
                 /\ Len(sinkCalls) = last.pre.calls
                 /\ batch = Append(last.pre.batch, last.product)

\* An addProduct flushed two pending records because the total would have
\* been exactly the ceiling.
C9_Witness ==
    /\ last.op = "addProduct"
    /\ Len(last.pre.batch) >= 2
    /\ last.pre.currentBatchSize + Cost(last.product) + 1 = maxBatchSize
    /\ Len(sinkCalls) = last.pre.calls + 1

\* C10 - The payload of the automatic flush inside addProduct(r) holds
\* neither r nor a later record: it is made of the records that were pending
\* before the call, which are the last ones added before r; r is appended
\* only after the payload was handed to the sink, and is then alone pending.
C10_AutoFlushBeforeAppend ==
    (last.op = "addProduct" /\ Len(sinkCalls) > last.pre.calls) =>
        LET before == Len(added) - (IF last.threw = "none" THEN 1 ELSE 0)
            held == Len(last.pre.batch)
        IN /\ Len(sinkCalls) = last.pre.calls + 1
           /\ held > 0
           /\ held <= before
           /\ JSONparse(LastPayload) = SubSeq(added, before - held + 1, before)
           /\ last.threw = "none" =>
                  /\ added[before + 1] = last.product
                  /\ batch = << last.product >>

\* An addProduct(r) flushed a batch whose last record equals r.
C10_Witness ==
    /\ last.op = "addProduct"
    /\ last.threw = "none"
    /\ Len(sinkCalls) > last.pre.calls
    /\ Len(last.pre.batch) >= 2
    /\ last.pre.batch[Len(last.pre.batch)] = last.product

\* C11 - Sink failure clears the batch: when the sink's call fails during
\* flush (called directly or from addProduct), the records of the failed
\* payload are no longer pending and the running total has been reset to 2
\* (plus the record appended after an automatic flush); no record is handed
\* to the sink more often than it was added.
C11_SinkFailureClearsBatch ==
    /\ (LastCalledSink /\ LastOutcome \in Failures) =>
           IF last.op = "addProduct" /\ last.threw = "none"
           THEN /\ batch = << last.product >>
                /\ currentBatchSize = 2 + Cost(last.product)
           ELSE /\ batch = << >>
                /\ currentBatchSize = 2
    /\ Len(Delivered) <= Len(added)

\* C12 - Sink failure propagates: when the sink's call fails, by throwing or
\* by a rejected promise, the flush or addProduct that made the call fails
\* with it, and has made that one sink call only.
C12_SinkFailurePropagates ==
    (LastCalledSink /\ LastOutcome \in Failures) =>
        /\ last.threw = "sink"
        /\ Len(sinkCalls) = last.pre.calls + 1

\* C13 - flush and addProduct return only after the delivery of the payload
\* they handed to the sink has completed, also with an asynchronous sink: at
\* most one delivery is in progress, and none while a record is appended.
C13_FlushAwaitsDelivery ==
    /\ LastCalledSink => LastOutcome # "pending"
    /\ Cardinality(InProgress) <= 1
    /\ (last.op = "addProduct" /\ last.threw = "none") => InProgress = { }

\* The latest event closed an item element.
ItemClosed ==
    /\ lastEvent.type = "closetag"
    /\ LocalNameOf(lastEvent.name) = TagItem

\* The products passed to addProduct so far, in the order of the calls.
HandedProducts == [i \in DOMAIN handed |-> handed[i].product]

\* No addProduct reaction is waiting in the queue.
NoAddProductQueued ==
    \A i \in DOMAIN pending.reactions : pending.reactions[i].kind # "addProduct"

\* The names of the fields of an object.
Keys(obj) == { obj[i].key : i \in DOMAIN obj }

\* C14 - Extractor validity: at the close of an item, a record is queued for
\* addProduct exactly when the item committed an id that is not empty after
\* trimming, a title and a description (empty or not); no record of another
\* kind is ever passed to addProduct, and while no addProduct has failed
\* every record queued is passed to it.
C14_ExtractorValidity ==
    /\ ItemClosed => (lastEvent.queued <=> lastEvent.valid)
    /\ \A i \in DOMAIN handed : ItemValid(handed[i].product)
    /\ (pending.state = "fulfilled" /\ NoAddProductQueued) =>
           HandedProducts = extracted

\* An item whose id is white space only, with a title and a description, has
\* been closed and not queued, after a valid item with an empty title.
C14_Witness ==
    /\ ItemClosed
    /\ ~lastEvent.queued
    /\ Keys(lastEvent.fields) = Recognized
    /\ Len(extracted) = 1
    /\ Get(extracted[1], KeyTitle) = << >>

\* C15 - Emission order: the products passed to addProduct, in the order of
\* the calls, are the first of the valid records in the order in which their
\* items closed; each call runs alone, also when several records were queued
\* before the first call.
C15_EmissionOrder ==
    /\ Len(handed) <= Len(extracted)
    /\ \A i \in DOMAIN handed : handed[i].product = extracted[i]

\* Two different records were queued before the first was passed to
\* addProduct, and both have been passed.
C15_Witness ==
    /\ Len(handed) = 2
    /\ handed[1].behind = 1
    /\ handed[1].product # handed[2].product

\* C16 - Final flush: when the stream has ended, the queue has run and every
\* addProduct succeeded, the call made last on the batch service is the final
\* flush; when parseProductFeed has resolved, nothing is pending and the
\* records of the payloads are the records of the valid items, in order.
C16_FinalFlush ==
    /\ (stream = "ended" /\ pending.reactions = << >>
            /\ Len(added) = Len(extracted)) =>
           /\ last.op = "flush"
           /\ last.threw = "none" => (batch = << >> /\ Delivered = extracted)
    /\ promise.state = "resolved" =>
           /\ last.op = "flush"
           /\ batch = << >>
           /\ currentBatchSize = 2
           /\ Delivered = extracted
           /\ HandedProducts = extracted

\* parseProductFeed has resolved after two valid items, the first delivered
\* by an automatic flush and the second by the final flush.
C16_Witness ==
    /\ promise.state = "resolved"
    /\ Len(extracted) = 2
    /\ Len(sinkCalls) = 2

\* C17 - Unrecognized tags are ignored: every record passed to addProduct,
\* and every object of a payload, has the fields id, title and description
\* and no other, whatever tags were closed inside its item.
C17_UnrecognizedIgnored ==
    /\ \A i \in DOMAIN handed : Keys(handed[i].product) = Recognized
    /\ \A i \in DOMAIN Delivered : Keys(Delivered[i]) = Recognized

\* C18 - Local name: the name the extractor uses for the element open inside
\* an item is what follows the first ':' of its tag name, and the tag name
\* itself when it has no ':'.
C18_LocalName ==
    Len(stack) = 2 => currentTag = LocalNameOf(stack[2].name)

\* C19 - Field value: the value committed at the close of a field tag inside
\* an item is the concatenation of the text and CDATA chunks received inside
\* that element, in arrival order, with leading and trailing white space
\* stripped.
C19_FieldValue ==
    (lastEvent.type = "closetag" /\ lastEvent.inItem
         /\ LocalNameOf(lastEvent.name) \in Recognized) =>
        /\ Has(currentProduct, LocalNameOf(lastEvent.name))
        /\ Get(currentProduct, LocalNameOf(lastEvent.name)) = trim(lastEvent.text)

\* C20 - Malformed input aborts extraction: once the parser has reported an
\* error, parseProductFeed is rejected with it, no further record is passed
\* to addProduct and no further payload is handed to the sink.
C20_ErrorAborts ==
    errorAt.seen =>
        /\ promise = [state |-> "rejected", reason |-> "parse"]
        /\ Len(handed) = errorAt.handed
        /\ Len(sinkCalls) = errorAt.calls

\* C21 - Source unavailable: when the file stream has failed,
\* parseProductFeed is rejected with the I/O error and flush is never called;
\* when it failed before any record was extracted (so also before any parser
\* event), neither addProduct nor the sink is ever called.
C21_SourceUnavailable ==
    stream = "destroyed" =>
        /\ promise = [state |-> "rejected", reason |-> "io"]
        /\ last.op # "flush"
        /\ extracted = << >> =>
               /\ nOps = 0
               /\ handed = << >>
               /\ sinkCalls = << >>
               /\ pending.reactions = << >>

\* The file stream failed before the parser emitted any event.
C21_Witness ==
    /\ stream = "destroyed"
    /\ promise.reason = "io"
    /\ extracted = << >>
    /\ lastEvent = NoCloseTag
    /\ currentTag = << >>
    /\ nOps = 0

\* C22 - Tight packing: the payload P handed to the sink by the automatic
\* flush of addProduct(r) satisfies bytes(P) + 1 + record_cost(r) >= ceiling.
C22_TightPacking ==
    (last.op = "addProduct" /\ LastCalledSink) =>
        byteLength(LastPayload) + COMMA_SEPARATOR_SIZE + Cost(last.product)
            >= maxBatchSize

\* An automatic flush handed over a payload that the record would have
\* extended to exactly the ceiling.
C22_Witness ==
    /\ last.op = "addProduct"
    /\ LastCalledSink
    /\ last.threw = "none"
    /\ byteLength(LastPayload) + 1 + Cost(last.product) = maxBatchSize

\* A queued addProduct or the final flush has failed.
ChainFailed == pending.state = "rejected"

\* The end handler's chain has run to its end.
ChainDone == stream = "ended" /\ pending.reactions = << >>

\* parseProductFeed resolves only when every addProduct and the final flush
\* completed without error.
ResolvedOnlyOnSuccess ==
    promise.state = "resolved" =>
        /\ ~ChainFailed
        /\ HandedProducts = extracted
        /\ added = extracted
        /\ last.op = "flush"
        /\ last.threw = "none"

IsNumber(p) ==
    LET body == IF p # << >> /\ p[1] \in { 43, 45 } THEN Tail(p) ELSE p
    IN /\ \A i \in DOMAIN body : IsDigit(body[i]) \/ body[i] = 46
       /\ Cardinality({ i \in DOMAIN body : body[i] = 46 }) <= 1
       /\ \E i \in DOMAIN body : IsDigit(body[i])

\* The number the decimal number p writes, as a fraction.
NumberOf(p) ==
    LET digits == SelectSeq(p, IsDigit)
        fraction == { i \in DOMAIN p :
                        IsDigit(p[i]) /\ \E d \in 1 .. i : p[d] = 46 }
    IN [num |-> (IF p[1] = 45 THEN -1 ELSE 1) * DigitsValue(digits, Len(digits)),
        den |-> Pow10(Cardinality(fraction))]

\* The megabytes of the ceiling as stated: 5 when MAX_BATCH_SIZE_MB is
\* unset, empty, not a number or zero, and its number otherwise.
MegabytesStated(e) ==
    IF \/ ~e.set
       \/ e.value = << >>
       \/ ~IsNumber(trim(e.value))
       \/ NumberOf(trim(e.value)).num = 0
    THEN [num |-> 5, den |-> 1]
    ELSE NumberOf(trim(e.value))

\* The megabytes of the ceiling as amended: the number MAX_BATCH_SIZE_MB
\* starts with after its leading white space, whatever follows it; 5 when
\* it is unset, starts with no number, or that number is zero.
MegabytesLeading(e) ==
    LET t == trimStart(e.value)
        numbers == { n \in 1 .. Len(t) : IsNumber(SubSeq(t, 1, n)) }
        longest == SubSeq(t, 1, CHOOSE n \in numbers : \A m \in numbers : m <= n)
    IN IF ~e.set \/ numbers = { } \/ NumberOf(longest).num = 0
       THEN [num |-> 5, den |-> 1]
       ELSE NumberOf(longest)

\* The ceiling is mb megabytes of 1,048,576 bytes, for the guard rail and
\* for the flush trigger of the latest addProduct alike.
CeilingIs(mb) ==
    LET ceiling == [num |-> mb.num * 1048576, den |-> mb.den]
        AtLeast(n) == n * ceiling.den >= ceiling.num
        cost == Cost(last.product)
        separator == IF Len(last.pre.batch) > 0 THEN 1 ELSE 0
    IN /\ maxBatchSize = Ceiling(ceiling)
       /\ last.op = "addProduct" =>
              /\ last.threw = "oversized" <=> AtLeast(2 + cost)
              /\ last.threw = "none" =>
                     (LastCalledSink <=>
                          AtLeast(last.pre.currentBatchSize + cost + separator))

C25_FailureDoesNotHalt ==
    ChainDone =>
        /\ HandedProducts = extracted
        /\ last.op = "flush"
        /\ SinkFailures = 0 => Delivered = added

\* The step is the closetag event of the element opened last.
ClosesElement ==
    /\ stack # << >>
    /\ stack' = SubSeq(stack, 1, Len(stack) - 1)
    /\ lastEvent'.type = "closetag"

\* C26 - Last write wins: when a field tag is closed inside an item that has
\* committed that field before, the field's value becomes the value this
\* close commits (empty or not), the other fields stay as they are and
\* nothing fails; the record queued at the close of the item carries the
\* values committed last, and none is queued when the id committed last is
\* empty.
C26_LastWriteWins ==
    [][ClosesElement =>
           LET name == LocalNameOf(stack[Len(stack)].name)
           IN /\ (insideItem /\ name \in Recognized /\ Has(currentProduct, name)) =>
                     /\ Get(currentProduct', name) = trim(currentText)
                     /\ Keys(currentProduct') = Keys(currentProduct)
                     /\ \A key \in Keys(currentProduct) \ { name } :
                            Get(currentProduct', key) = Get(currentProduct, key)
                     /\ << promise, pending, stream, errorAt >>'
                            = << promise, pending, stream, errorAt >>
              /\ name = TagItem =>
                     IF extracted' # extracted
                     THEN /\ extracted' = Append(extracted, currentProduct)
                          /\ Get(currentProduct, KeyId) # << >>
                     ELSE ~isValidProduct(currentProduct)]_vars

\* The id of an item was committed as "a" and has been committed again,
\* empty, by the close of a second id element.
C26_Witness ==
    /\ lastEvent.type = "closetag"
    /\ LocalNameOf(lastEvent.name) = KeyId
    /\ Has(lastEvent.prior, KeyId)
    /\ Get(lastEvent.prior, KeyId) = << 97 >>
    /\ Get(currentProduct, KeyId) = << >>

\* The addProduct reactions of a queue.
AddProductsOf(queue) ==
    { i \in DOMAIN queue.reactions : queue.reactions[i].kind = "addProduct" }

\* C27 - An item that is not closed is never handed over: an addProduct is
\* queued, and a record counted as extracted, only by the closetag event of
\* an item element; the end of the stream queues none, whatever item is
\* open, and no addProduct is called for a product that was not queued.
C27_OnlyClosedItems ==
    [][/\ (\/ extracted' # extracted
           \/ Cardinality(AddProductsOf(pending')) > Cardinality(AddProductsOf(pending)))
          => /\ ClosesElement
             /\ LocalNameOf(stack[Len(stack)].name) = TagItem
             /\ pending'.reactions =
                    Append(pending.reactions,
                           [kind |-> "addProduct", product |-> currentProduct])
       /\ handed' # handed =>
              /\ pending.reactions # << >>
              /\ Head(pending.reactions).kind = "addProduct"
              /\ handed'[Len(handed')].product = Head(pending.reactions).product]_vars

\* The stream has ended with an item open that had committed an id, a title
\* and a description; the queue has run and nothing was handed over.
C27_Witness ==
    /\ ChainDone
    /\ InItem
    /\ ItemValid(item)
    /\ isValidProduct(currentProduct)
    /\ extracted = << >>
    /\ handed = << >>
    /\ sinkCalls = << >>

\* C28 - Shutdown signal: when the process has exited on a signal, its exit
\* code is 0 whether the flush of the handler threw or not; that flush was
\* the last call on the batch service and handed the sink the records then
\* pending, which are the records added last, if there were any; the
\* records whose addProduct had not run are still in the queue and in no
\* payload.
C28_ShutdownSignal ==
    ~Running =>
        LET held == Len(last.pre.batch)
        IN /\ exit = "0"
           /\ last.op = "flush"
           /\ LastCalledSink <=> held > 0
           /\ LastCalledSink =>
                  /\ Len(sinkCalls) = last.pre.calls + 1
                  /\ JSONparse(LastPayload) = last.pre.batch
           /\ held <= Len(added)
           /\ last.pre.batch = SubSeq(added, Len(added) - held + 1, Len(added))
           /\ last.threw = "none" => (batch = << >> /\ currentBatchSize = 2)
           /\ Len(added) <= Len(handed)
           /\ Len(handed) + Cardinality(AddProductsOf(pending)) <= Len(extracted)

\* A signal came while the feed was being read; the flush of the handler
\* handed one record to a sink that threw, and the process exited with
\* code 0.
C28_Witness ==
    /\ exit = "0"
    /\ stream = "flowing"
    /\ last.threw = "sink"
    /\ Len(last.pre.batch) = 1
    /\ LastCalledSink

\* The record whose id, title and description are all empty strings.
EmptyStrings == Product(<< >>, << >>, << >>)

\* The text [{"id":"","title":"","description":""}].
EmptyStringsArrayText ==
    << 91, 123, 34, 105, 100, 34, 58, 34, 34, 44,
       34, 116, 105, 116, 108, 101, 34, 58, 34, 34, 44,
       34, 100, 101, 115, 99, 114, 105, 112, 116, 105, 111, 110, 34, 58, 34, 34,
       125, 93 >>

\* C29 - The accumulator does not validate record content: a call of
\* addProduct whose record passes the size guard adds the record, whatever
\* its fields, the record of three empty strings included, and throws only
\* if the sink threw in the flush it triggered; a flush that finds just the
\* record of three empty strings pending hands the sink the one-element JSON
\* array of it, which parses back to the record.
C29_NoContentValidation ==
    /\ (last.op = "addProduct"
            /\ ~guardRail(Cost(last.product), maxBatchSize)) =>
           /\ last.threw # "none" =>
                  /\ last.threw = "sink"
                  /\ LastCalledSink
                  /\ LastOutcome = "throw"
           /\ last.threw = "none" =>
                  /\ batch # << >>
                  /\ batch[Len(batch)] = last.product
    /\ (last.op = "flush" /\ last.pre.batch = << EmptyStrings >>) =>
           /\ LastCalledSink
           /\ Len(sinkCalls) = last.pre.calls + 1
           /\ LastPayload = EmptyStringsArrayText
           /\ JSONparse(LastPayload) = << EmptyStrings >>

\* The record of three empty strings was added to an empty batch and the
\* flush that followed handed it to the sink.
C29_Witness ==
    /\ last.op = "flush"
    /\ last.prevOp = "addProduct"
    /\ last.pre.batch = << EmptyStrings >>
    /\ added # << >>
    /\ added[Len(added)] = EmptyStrings
    /\ LastCalledSink

\* C30 - Implicit: once the configuration is loaded, in every state
\* 2 <= currentBatchSize < ceiling, and currentBatchSize = 2 exactly when the
\* pending batch is empty; after every successful addProduct the pending
\* batch is non-empty and its last element is the record just added.
C30_RunningTotalRange ==
    env.loaded =>
        /\ EMPTY_JSON_ARRAY_SIZE <= currentBatchSize
        /\ currentBatchSize < maxBatchSize
        /\ currentBatchSize = EMPTY_JSON_ARRAY_SIZE <=> batch = << >>
        /\ (last.op = "addProduct" /\ last.threw = "none") =>
               /\ batch # << >>
               /\ batch[Len(batch)] = last.product

\* The text of the empty JSON array, [].
EmptyArrayText == << 91, 93 >>

\* C31 - Implicit: when a call of addProduct gets past the guard rail and its
\* flush condition is true, the pending batch is not empty; a call of
\* addProduct hands the sink at most one payload, that payload is the batch
\* pending before the call, and no payload ever handed to the sink is the
\* empty array.
C31_TriggerNeedsPending ==
    /\ last.op = "addProduct" =>
           /\ (last.threw # "oversized"
                   /\ wouldReachLimit(last.pre, Cost(last.product), maxBatchSize)) =>
                  /\ last.pre.batch # << >>
                  /\ LastCalledSink
           /\ Len(sinkCalls) <= last.pre.calls + 1
           /\ LastCalledSink =>
                  /\ last.pre.batch # << >>
                  /\ JSONparse(LastPayload) = last.pre.batch
    /\ \A i \in DOMAIN sinkCalls :
           /\ sinkCalls[i].batch # EmptyArrayText
           /\ JSONparse(sinkCalls[i].batch) # << >>

\* A call of addProduct found two records pending, its flush condition was
\* true, it handed the two records to the sink in one payload and added its
\* own record to the emptied batch.
C31_Witness ==
    /\ last.op = "addProduct"
    /\ last.threw = "none"
    /\ Len(last.pre.batch) = 2
    /\ wouldReachLimit(last.pre, Cost(last.product), maxBatchSize)
    /\ LastCalledSink
    /\ batch = << last.product >>

\* The step is the opentag event of an item element.
OpensItem ==
    /\ Len(stack') = Len(stack) + 1
    /\ LocalNameOf(stack'[Len(stack')].name) = TagItem

\* C32 - No field value leaks between items or from outside items: the
\* field accumulator is empty at the open of an item and whenever no item is
\* open; it gains or changes a field only at the close of an element inside
\* the open item; and the id, title and description of a record queued at the
\* close of an item are the values committed by closes between the open and
\* the close of that item.
C32_NoLeak ==
    [][/\ OpensItem => currentProduct' = << >>
       /\ ~InItem' => currentProduct' = << >>
       /\ currentProduct' \notin { currentProduct, << >> } =>
              /\ ClosesElement
              /\ InItem
              /\ LocalNameOf(stack[Len(stack)].name) # TagItem
       /\ extracted' # extracted =>
              /\ ClosesElement
              /\ LocalNameOf(stack[Len(stack)].name) = TagItem
              /\ LET record == extracted'[Len(extracted')]
                 IN \A key \in Keys(record) \cap Recognized :
                        /\ Has(lastEvent'.fields, key)
                        /\ Get(lastEvent'.fields, key) = Get(record, key)]_vars

\* Two items have been closed with a record each: the first with title and
\* description "a", the second with both empty, so it took neither from the
\* first; a title element has then been closed at feed level and the field
\* accumulator is empty.
C32_Witness ==
    /\ Len(extracted) = 2
    /\ Get(extracted[1], KeyTitle) = << 97 >>
    /\ Get(extracted[1], KeyDescription) = << 97 >>
    /\ Get(extracted[2], KeyTitle) = << >>
    /\ Get(extracted[2], KeyDescription) = << >>
    /\ lastEvent.type = "closetag"
    /\ ~lastEvent.inItem
    /\ LocalNameOf(lastEvent.name) = KeyTitle
    /\ currentProduct = << >>

\* The step is an opentag event.
OpensElement ==
    /\ Len(stack') = Len(stack) + 1
    /\ lastEvent'.after = "open"

\* C33 - The text accumulator is reset at every open event inside an item and
\* at every close event, and nothing is accumulated after a close until the
\* next open; so the value committed at the close of a field element inside
\* an item is the trimmed text received since the element's open when no
\* element was opened inside it, and is empty when a nested element was
\* closed inside it, whatever text came before or after that element.
C33_TextSinceLastTag ==
    [][/\ (OpensElement /\ InItem') => currentText' = << >>
       /\ ClosesElement => (currentText' = << >> /\ currentTag' = << >>)
       /\ lastEvent'.after = "close" => currentText' = << >>
       /\ (ClosesElement /\ InItem
               /\ LocalNameOf(stack[Len(stack)].name) \in Recognized) =>
              LET name == LocalNameOf(stack[Len(stack)].name)
              IN /\ Has(currentProduct', name)
                 /\ Get(currentProduct', name) =
                        IF lastEvent.after = "open"
                        THEN trim(stack[Len(stack)].text)
                        ELSE << >>]_vars

\* A title element inside an item received the text "a" and had a nested
\* element closed inside it; its close committed the empty string.
C33_Witness ==
    /\ lastEvent.type = "closetag"
    /\ lastEvent.inItem
    /\ LocalNameOf(lastEvent.name) = KeyTitle
    /\ lastEvent.text = << 97 >>
    /\ Has(currentProduct, KeyTitle)
    /\ Get(currentProduct, KeyTitle) = << >>
    /\ ~Has(currentProduct, KeyId)

=============================================================================
